---- MODULE Spec2Model ----
(***************************************************************************)
(* Model of text-json-api (src/index.ts): the schema translator            *)
(* (determineSchemaType, jsonSchemaToZod), the validators it builds, the   *)
(* retry wrapper RetryablePromise.retry and the POST / handler.            *)
(***************************************************************************)
EXTENDS Integers, Sequences, FiniteSets, TLC

VARIABLES
    \* translator runs (SpecSchema, SpecValidate)
    schema,     \* the node handed to determineSchemaType / jsonSchemaToZod
    value,      \* the value handed to the translated validator
    kind,       \* completion of determineSchemaType(schema), or NotRun
    zod,        \* completion of jsonSchemaToZod(schema), or NotRun
    parsed,     \* result of the validator's parse of value, or NotRun
    \* one call of RetryablePromise.retry with an arbitrary executor (SpecRetry)
    rN,         \* the retries argument of the outermost call
    rRetries,   \* the retries argument of the innermost call made so far
    rCalls,     \* how many times the executor has been invoked
    rState,     \* "uncalled", "pending", "rejected", "fulfilled" or "failed"
    rOutcomes,  \* what the executor did at each invocation, in order
    rResult,    \* the settlement of the innermost promise / of the whole call
    \* the POST / handler, per request (Spec, SpecConc)
    pc,         \* "idle", "reading", "awaiting", "rejected", "fulfilled", "responded", "failed"
    bodyText,   \* the request's body text
    generatedSchema, \* the validator jsonSchemaToZod(format) returned, or NotRun
    retries,    \* the retries argument of the innermost retry call
    attempts,   \* executor invocations
    genCalls,   \* model.generateContent invocations
    inflight,   \* attempts started and not yet settled
    lastResp,   \* what the collaborator answered to the latest attempt
    settled,    \* [attempt, completion] of the latest settled attempt
    failKinds,  \* the kinds of failure the attempts have met so far
    response    \* what the request ended with

tvars == <<schema, value, kind, zod, parsed>>
rvars == <<rN, rRetries, rCalls, rState, rOutcomes, rResult>>
hvars == <<pc, bodyText, generatedSchema, retries, attempts, genCalls, inflight,
           lastResp, settled, failKinds, response>>
vars == <<tvars, rvars, hvars>>

----------------------------------------------------------------------------
(* Bounds of the model.                                                    *)

MaxDepth == 2
MaxRetries == 3
NumRequests == 2

----------------------------------------------------------------------------
(* JavaScript values.  Every value is a record [t, v]; a mapping keeps its *)
(* entries as a sequence of <<key, value>> pairs in insertion order.       *)

Null == [t |-> "null", v |-> "null"]
Undefined == [t |-> "undefined", v |-> "undefined"]
Str(s) == [t |-> "string", v |-> s]
Num(n) == [t |-> "number", v |-> n]
Bool(b) == [t |-> "boolean", v |-> b]
Arr(elems) == [t |-> "array", v |-> elems]
Obj(entries) == [t |-> "object", v |-> entries]

Keys(x) == {x.v[i][1] : i \in 1..Len(x.v)}

\* x.hasOwnProperty(key), for the keys the program asks about
hasOwnProperty(x, key) ==
    CASE x.t = "object" -> key \in Keys(x)
      [] x.t \in {"array", "string"} -> key = "length"
      [] OTHER -> FALSE

\* x[key] / x.key on a non-nullish value: the own property, else undefined
GetProperty(x, key) ==
    IF x.t = "object" /\ key \in Keys(x)
    THEN x.v[CHOOSE i \in 1..Len(x.v) : x.v[i][1] = key][2]
    ELSE Undefined

isArray(x) == x.t = "array"

\* the typeof operator
typeof(x) ==
    CASE x.t \in {"null", "array", "object"} -> "object"
      [] OTHER -> x.t

\* String(x) as a template literal renders it, for the values a JSON tree holds
RECURSIVE JoinElems(_)
RECURSIVE TemplateString(_)
JoinElems(elems) ==
    IF Len(elems) = 0 THEN ""
    ELSE LET first == IF elems[1].t \in {"null", "undefined"} THEN ""
                      ELSE TemplateString(elems[1])
         IN IF Len(elems) = 1 THEN first
            ELSE first \o "," \o JoinElems(Tail(elems))
TemplateString(x) ==
    CASE x.t = "string" -> x.v
      [] x.t = "number" -> ToString(x.v)
      [] x.t = "boolean" -> IF x.v THEN "true" ELSE "false"
      [] x.t = "object" -> "[object Object]"
      [] x.t = "array" -> JoinElems(x.v)
      [] OTHER -> x.t

----------------------------------------------------------------------------
(* Completions: a call either returns a value or throws an error.          *)

Return(x) == [thrown |-> FALSE, value |-> x]
Throw(e) == [thrown |-> TRUE, value |-> e]
NotRun == [thrown |-> FALSE, value |-> [t |-> "not run", v |-> "not run"]]

\* error objects: v is <<name, message>>
ErrorObject(name, message) == [t |-> "error", v |-> <<name, message>>]
TypeError == ErrorObject("TypeError", "Cannot read properties")
UnsupportedSchemaType(type) ==
    ErrorObject("Error", "Unsupported schema type: " \o TemplateString(type))

----------------------------------------------------------------------------
(* determineSchemaType                                                     *)

determineSchemaTypeNoArrayCheck(s) ==
    IF s.t \in {"null", "undefined"} THEN Throw(TypeError)
    ELSE IF ~hasOwnProperty(s, "type") THEN Return(Str(typeof(s)))
         ELSE Return(GetProperty(s, "type"))

determineSchemaType(s) ==
    IF s.t \in {"null", "undefined"} THEN Throw(TypeError)
    ELSE IF ~hasOwnProperty(s, "type")
         THEN IF isArray(s) THEN Return(Str("array"))
              ELSE Return(Str(typeof(s)))
         ELSE Return(GetProperty(s, "type"))

----------------------------------------------------------------------------
(* Validators (zod).                                                       *)

ZString == [z |-> "string", arg |-> <<>>, unknownKeys |-> "strip"]
ZNumber == [z |-> "number", arg |-> <<>>, unknownKeys |-> "strip"]
ZBoolean == [z |-> "boolean", arg |-> <<>>, unknownKeys |-> "strip"]
ZArray(element) == [z |-> "array", arg |-> element, unknownKeys |-> "strip"]
ZObject(shape) == [z |-> "object", arg |-> shape, unknownKeys |-> "strip"]
Passthrough(zobj) == [zobj EXCEPT !.unknownKeys = "passthrough"]

NullableDropped(validator) == validator
Nullable(validator) == [z |-> "nullable", arg |-> validator, unknownKeys |-> "strip"]

----------------------------------------------------------------------------
(* jsonSchemaToZod                                                         *)

UnsupportedAsString(type) == Return(Nullable(ZString))
DefaultCase(type) == Throw(UnsupportedSchemaType(type))

RECURSIVE jsonSchemaToZod(_)
RECURSIVE ShapeOf(_, _, _)

\* the for..in loop of the object case: entries from position i on, shape so far
ShapeOf(s, i, shape) ==
    IF i > Len(s.v) THEN Return(ZObject(shape))
    ELSE LET sub == jsonSchemaToZod(s.v[i][2])
         IN IF sub.thrown THEN sub
            ELSE ShapeOf(s, i + 1, Append(shape, <<s.v[i][1], sub.value>>))

jsonSchemaToZod(s) ==
    LET type == determineSchemaType(s)
    IN IF type.thrown THEN type
       ELSE CASE type.value = Str("string") -> Return(Nullable(ZString))
              [] type.value = Str("number") -> Return(Nullable(ZNumber))
              [] type.value = Str("boolean") -> Return(Nullable(ZBoolean))
              [] type.value = Str("array") ->
                    LET items == jsonSchemaToZod(GetProperty(s, "items"))
                    IN IF items.thrown THEN items
                       ELSE Return(Nullable(ZArray(items.value)))
              [] type.value = Str("object") -> ShapeOf(s, 1, <<>>)
              [] OTHER -> DefaultCase(type.value)

----------------------------------------------------------------------------
(* The validators' parse: [success, data].  An object validator reads      *)
(* every key of its shape from the input, fails when a sub-validator       *)
(* fails, and by default strips the keys its shape does not declare.       *)

Success(x) == [success |-> TRUE, data |-> x]
Failure == [success |-> FALSE, data |-> Undefined]

RECURSIVE safeParse(_, _)
RECURSIVE ParseElems(_, _, _, _)
RECURSIVE ParseShape(_, _, _, _)

ParseElems(element, elems, i, out) ==
    IF i > Len(elems) THEN Success(Arr(out))
    ELSE LET r == safeParse(element, elems[i])
         IN IF r.success THEN ParseElems(element, elems, i + 1, Append(out, r.data))
            ELSE Failure

ParseShape(shape, x, i, out) ==
    IF i > Len(shape) THEN Success(Obj(out))
    ELSE LET r == safeParse(shape[i][2], GetProperty(x, shape[i][1]))
         IN IF r.success
            THEN ParseShape(shape, x, i + 1, Append(out, <<shape[i][1], r.data>>))
            ELSE Failure

ShapeKeys(shape) == {shape[i][1] : i \in 1..Len(shape)}

ExtraEntries(shape, x) ==
    SelectSeq(x.v, LAMBDA e : e[1] \notin ShapeKeys(shape))

safeParse(validator, x) ==
    CASE validator.z = "string" -> IF x.t = "string" THEN Success(x) ELSE Failure
      [] validator.z = "number" -> IF x.t = "number" THEN Success(x) ELSE Failure
      [] validator.z = "boolean" -> IF x.t = "boolean" THEN Success(x) ELSE Failure
      [] validator.z = "nullable" ->
            IF x = Null THEN Success(Null) ELSE safeParse(validator.arg, x)
      [] validator.z = "array" ->
            IF x.t = "array" THEN ParseElems(validator.arg, x.v, 1, <<>>) ELSE Failure
      [] validator.z = "object" ->
            IF x.t # "object" THEN Failure
            ELSE LET r == ParseShape(validator.arg, x, 1, <<>>)
                 IN IF r.success /\ validator.unknownKeys = "passthrough"
                    THEN Success(Obj(r.data.v \o ExtraEntries(validator.arg, x)))
                    ELSE r

----------------------------------------------------------------------------
(* Bounded sets of schema nodes and values.                                *)

Marker(type) == Obj(<< <<"type", Str(type)>> >>)
ArrayMarker(items) == Obj(<< <<"type", Str("array")>>, <<"items", items>> >>)

PrimitiveMarkers == {Marker("string"), Marker("number"), Marker("boolean")}

\* loose nodes: everything a JSON format tree can hold
LooseLeaves ==
    PrimitiveMarkers \cup
    { Marker("unknown"), Marker("integer"), Marker("array"),
      Obj(<< <<"type", Num(7)>> >>), Obj(<< <<"type", Null>> >>),
      Null, Str("string"), Num(7), Bool(TRUE), Obj(<<>>), Arr(<<>>) }

SecondFields == {Marker("string"), Marker("unknown"), Null}

RECURSIVE LooseNodes(_)
LooseNodes(d) ==
    IF d = 0 THEN LooseLeaves
    ELSE LET sub == LooseNodes(d - 1)
         IN LooseLeaves
            \cup {ArrayMarker(x) : x \in sub}
            \cup {Arr(<<x>>) : x \in sub}
            \cup {Obj(<< <<"a", x>> >>) : x \in sub}
            \cup {Obj(<< <<"type", Str("object")>>, <<"a", x>> >>) : x \in sub}
            \cup {Obj(<< <<"a", x>>, <<"b", y>> >>) : x \in sub, y \in SecondFields}
            \cup {Obj(<< <<"b", y>>, <<"a", x>> >>) : x \in sub, y \in SecondFields}

\* well-formed trees: primitive markers, array markers with items, implicit objects
WellFormedLeaves == PrimitiveMarkers \cup {Obj(<<>>)}

RECURSIVE WellFormedNodes(_)
WellFormedNodes(d) ==
    IF d = 0 THEN WellFormedLeaves
    ELSE LET sub == WellFormedNodes(d - 1)
         IN WellFormedLeaves
            \cup {ArrayMarker(x) : x \in sub}
            \cup {Obj(<< <<"a", x>> >>) : x \in sub}
            \cup {Obj(<< <<"a", x>>, <<"b", Marker("number")>> >>) : x \in sub}

ValueLeaves ==
    { Null, Str("John"), Num(25), Bool(TRUE), Arr(<<>>), Obj(<<>>),
      Obj(<< <<"b", Num(25)>> >>) }

RECURSIVE Values(_)
Values(d) ==
    IF d = 0 THEN ValueLeaves
    ELSE LET sub == Values(d - 1)
         IN ValueLeaves
            \cup {Arr(<<x>>) : x \in sub}
            \cup {Arr(<<x, Num(25)>>) : x \in sub}
            \cup {Obj(<< <<"a", x>> >>) : x \in sub}
            \cup {Obj(<< <<"a", x>>, <<"b", Num(25)>> >>) : x \in sub}
            \cup {Obj(<< <<"b", Str("John")>>, <<"a", x>> >>) : x \in sub}

----------------------------------------------------------------------------
(* RetryablePromise.retry                                                  *)

RetryDecisionOffByOne(n) == IF n > 1 THEN "retry" ELSE "reject"
\* retries > 0 ? retry(retries - 1, executor) : reject(error)
RetryDecision(n) == IF n > 0 THEN "retry" ELSE "reject"

CatchRunsOnFulfilled(state) == state \in {"rejected", "fulfilled"}
CatchRunsWhilePending(state) == state \in {"rejected", "pending"}
\* the .catch handler runs once the promise it is attached to is rejected
CatchRuns(state) == state = "rejected"

RejectionWrapped(error) == ErrorObject("RetryError", "retries exhausted")
\* RetryablePromise.reject(error)
Rejection(error) == error

\* What an executor may do when invoked for the k-th time: settle the promise
\* with resolve or reject (the first call wins), throw, or never settle it.
Behaviours == {"resolve", "reject", "throw", "rejectThenResolve", "hang"}
Payloads == {"NetworkError", "SyntaxError"}
OpValue(k, p) == Str(p \o " " \o ToString(k))
OpError(k, p) == ErrorObject(p, "attempt " \o ToString(k))
Outcomes(k) ==
    {[does |-> b, val |-> OpValue(k, p), error |-> OpError(k, p)] :
        b \in Behaviours, p \in Payloads}

Fails(o) == o.does \in {"reject", "throw", "rejectThenResolve"}

\* the settlement of new Promise(executor) for an executor that does o
Settlement(o) == IF Fails(o) THEN Throw(o.error) ELSE Return(o.val)

\* new RetryablePromise(executor): the executor runs at once
Invoke(o) ==
    /\ rCalls' = rCalls + 1
    /\ rOutcomes' = Append(rOutcomes, o)
    /\ IF o.does = "throw"
       THEN rState' = "rejected" /\ rResult' = Settlement(o)
       ELSE rState' = "pending" /\ UNCHANGED rResult

\* RetryablePromise.retry(rN, executor), called from outside
RetryCall ==
    /\ rState = "uncalled"
    /\ \E o \in Outcomes(rCalls + 1) : Invoke(o)
    /\ UNCHANGED <<rN, rRetries>>

\* the executor settles its promise
Settle ==
    /\ rState = "pending"
    /\ rOutcomes[Len(rOutcomes)].does # "hang"
    /\ rResult' = Settlement(rOutcomes[Len(rOutcomes)])
    /\ rState' = IF Fails(rOutcomes[Len(rOutcomes)]) THEN "rejected" ELSE "fulfilled"
    /\ UNCHANGED <<rN, rRetries, rCalls, rOutcomes>>

\* the .catch handler: retry with one unit less, or reject for good
RetryCatch ==
    /\ CatchRuns(rState)
    /\ IF RetryDecision(rRetries) = "retry"
       THEN /\ rRetries' = rRetries - 1
            /\ rCalls <= MaxRetries + 1    \* keeps a miscounting retry finite
            /\ \E o \in Outcomes(rCalls + 1) : Invoke(o)
            /\ UNCHANGED rN
       ELSE /\ rState' = "failed"
            /\ rResult' = Throw(Rejection(rResult.value))
            /\ UNCHANGED <<rN, rRetries, rCalls, rOutcomes>>

----------------------------------------------------------------------------
(* The POST / handler.                                                     *)

RETRIES == 3

Requests == 1..NumRequests

\* JSON.parse / c.req.json() on the texts of the model
GoodFormat ==
    Obj(<< <<"name", Marker("string")>>, <<"age", Marker("number")>> >>)
Input == Str("My name is John and I am 25 years old.")
SyntaxError == ErrorObject("SyntaxError", "Unexpected token")
JSONparse(text) ==
    CASE text = "{\"input\":\"My name is John and I am 25 years old.\",\"format\":{\"name\":{\"type\":\"string\"},\"age\":{\"type\":\"number\"}}}" ->
            Return(Obj(<< <<"input", Input>>, <<"format", GoodFormat>> >>))
      [] text = "{\"input\":\"My name is John and I am 25 years old.\"}" ->
            Return(Obj(<< <<"input", Input>> >>))
      [] text = "{\"input\":5,\"format\":{\"name\":{\"type\":\"string\"},\"age\":{\"type\":\"number\"}}}" ->
            Return(Obj(<< <<"input", Num(5)>>, <<"format", GoodFormat>> >>))
      [] text = "{\"input\":\"My name is John and I am 25 years old.\",\"format\":[]}" ->
            Return(Obj(<< <<"input", Input>>, <<"format", Arr(<<>>)>> >>))
      [] text = "{\"input\":\"My name is John and I am 25 years old.\",\"format\":{\"name\":{\"type\":\"unknown\"}}}" ->
            Return(Obj(<< <<"input", Input>>,
                          <<"format", Obj(<< <<"name", Marker("unknown")>> >>)>> >>))
      [] text = "{\"input\":\"My name is John and I am 25 years old.\",\"format\":{\"tags\":{\"type\":\"array\"}}}" ->
            Return(Obj(<< <<"input", Input>>,
                          <<"format", Obj(<< <<"tags", Marker("array")>> >>)>> >>))
      [] text = "{\"name\":\"John\",\"age\":25}" ->
            Return(Obj(<< <<"name", Str("John")>>, <<"age", Num(25)>> >>))
      [] text = "{\"name\":\"John\",\"age\":null}" ->
            Return(Obj(<< <<"name", Str("John")>>, <<"age", Null>> >>))
      [] text = "{\"name\":\"John\",\"age\":25,\"note\":\"none\"}" ->
            Return(Obj(<< <<"name", Str("John")>>, <<"age", Num(25)>>,
                          <<"note", Str("none")>> >>))
      [] text = "{\"name\":\"John\"}" ->
            Return(Obj(<< <<"name", Str("John")>> >>))
      [] text = "{\"name\":\"John\",\"age\":\"25\"}" ->
            Return(Obj(<< <<"name", Str("John")>>, <<"age", Str("25")>> >>))
      [] OTHER -> Throw(SyntaxError)

RequestTexts ==
    { "{\"input\":\"My name is John and I am 25 years old.\",\"format\":{\"name\":{\"type\":\"string\"},\"age\":{\"type\":\"number\"}}}",
      "{\"input\":\"My name is John and I am 25 years old.\"}",
      "{\"input\":5,\"format\":{\"name\":{\"type\":\"string\"},\"age\":{\"type\":\"number\"}}}",
      "{\"input\":\"My name is John and I am 25 years old.\",\"format\":[]}",
      "{\"input\":\"My name is John and I am 25 years old.\",\"format\":{\"name\":{\"type\":\"unknown\"}}}",
      "{\"input\":\"My name is John and I am 25 years old.\",\"format\":{\"tags\":{\"type\":\"array\"}}}",
      "{\"input\":" }

\* what model.generateContent(prompt) comes back with: a failure, or a text
GenerationError == ErrorObject("GoogleGenerativeAIError", "fetch failed")
Responses ==
    { Throw(GenerationError),
      Return(Str("")),
      Return(Str("Sure! Here is the JSON you asked for")),
      Return(Str("{\"name\":\"John\",\"age\":25}")),
      Return(Str("{\"name\":\"John\",\"age\":null}")),
      Return(Str("{\"name\":\"John\",\"age\":25,\"note\":\"none\"}")),
      Return(Str("{\"name\":\"John\"}")),
      Return(Str("{\"name\":\"John\",\"age\":\"25\"}")) }

\* the inputs of the runs with several requests in progress
ConcRequestTexts ==
    { "{\"input\":\"My name is John and I am 25 years old.\",\"format\":{\"name\":{\"type\":\"string\"},\"age\":{\"type\":\"number\"}}}",
      "{\"input\":\"My name is John and I am 25 years old.\"}" }
ConcResponses == {Throw(GenerationError), Return(Str("{\"name\":\"John\",\"age\":25}"))}

\* z.object({ input: z.string(), format: z.object({}).passthrough() })
inputSchema ==
    ZObject(<< <<"input", ZString>>, <<"format", Passthrough(ZObject(<<>>))>> >>)

\* validator.parse(x): the data, or a ZodError thrown
ZodError == ErrorObject("ZodError", "invalid input")
parse(validator, x) ==
    LET r == safeParse(validator, x)
    IN IF r.success THEN Return(r.data) ELSE Throw(ZodError)

\* a || ''
OrEmpty(x) == IF x.t = "string" /\ x.v # "" THEN x.v ELSE ""

PreflightUnchecked(text) ==
    LET body == JSONparse(text)
    IN IF body.thrown THEN body
       ELSE jsonSchemaToZod(GetProperty(body.value, "format"))

\* the handler up to the retry call: the body as JSON, inputSchema.parse(body),
\* jsonSchemaToZod(format)
Preflight(text) ==
    LET body == JSONparse(text)
    IN IF body.thrown THEN body
       ELSE LET shape == parse(inputSchema, body.value)
            IN IF shape.thrown THEN shape
               ELSE jsonSchemaToZod(GetProperty(shape.value, "format"))

AttemptOutcomeUnvalidated(validator, resp) ==
    IF resp.thrown THEN resp ELSE JSONparse(OrEmpty(resp.value))

\* the executor after generateContent settles: resolve(generatedSchema.parse(
\* JSON.parse(text || ''))), or reject(err) with whatever was thrown
AttemptOutcome(validator, resp) ==
    IF resp.thrown THEN resp
    ELSE LET json == JSONparse(OrEmpty(resp.value))
         IN IF json.thrown THEN json ELSE parse(validator, json.value)

FailureKind(error) ==
    CASE error.v[1] = "SyntaxError" -> "parse"
      [] error.v[1] = "ZodError" -> "validation"
      [] OTHER -> "generation"

NoResponse == [sent |-> "nothing", status |-> 0, body |-> Undefined]
NotSettled == [attempt |-> 0, completion |-> NotRun]

\* the executor runs up to its await of model.generateContent(prompt)
StartAttempt(r) ==
    /\ attempts' = [attempts EXCEPT ![r] = @ + 1]
    /\ genCalls' = [genCalls EXCEPT ![r] = @ + 1]
    /\ inflight' = [inflight EXCEPT ![r] = @ + 1]
    /\ pc' = [pc EXCEPT ![r] = "pending"]

\* a request arrives
Receive(r, texts) ==
    /\ pc[r] = "idle"
    /\ \E text \in texts : bodyText' = [bodyText EXCEPT ![r] = text]
    /\ pc' = [pc EXCEPT ![r] = "reading"]
    /\ UNCHANGED <<generatedSchema, retries, attempts, genCalls, inflight,
                   lastResp, settled, failKinds, response>>

\* the handler from the body to the first run of the executor
Handle(r) ==
    /\ pc[r] = "reading"
    /\ LET pre == Preflight(bodyText[r])
       IN IF pre.thrown
          THEN /\ pc' = [pc EXCEPT ![r] = "failed"]
               /\ response' = [response EXCEPT ![r] =
                     [sent |-> "error", status |-> 0, body |-> pre.value]]
               /\ UNCHANGED <<generatedSchema, retries, attempts, genCalls, inflight>>
          ELSE /\ generatedSchema' = [generatedSchema EXCEPT ![r] = pre]
               /\ retries' = [retries EXCEPT ![r] = RETRIES]
               /\ StartAttempt(r)
               /\ UNCHANGED response
    /\ UNCHANGED <<bodyText, lastResp, settled, failKinds>>

\* generateContent settles and the executor runs to its resolve or reject
CollaboratorResponds(r, resps) ==
    /\ pc[r] = "pending"
    /\ \E resp \in resps :
          LET out == AttemptOutcome(generatedSchema[r].value, resp)
          IN /\ lastResp' = [lastResp EXCEPT ![r] = resp]
             /\ settled' = [settled EXCEPT ![r] =
                    [attempt |-> attempts[r], completion |-> out]]
             /\ pc' = [pc EXCEPT ![r] = IF out.thrown THEN "rejected" ELSE "fulfilled"]
             /\ failKinds' = [failKinds EXCEPT ![r] =
                    IF out.thrown THEN @ \cup {FailureKind(out.value)} ELSE @]
    /\ inflight' = [inflight EXCEPT ![r] = @ - 1]
    /\ UNCHANGED <<bodyText, generatedSchema, retries, attempts, genCalls, response>>

\* the .catch handler of the attempt's promise
Catch(r) ==
    /\ CatchRuns(pc[r])
    /\ attempts[r] <= RETRIES + 1    \* keeps a miscounting retry finite
    /\ IF RetryDecision(retries[r]) = "retry"
       THEN /\ retries' = [retries EXCEPT ![r] = @ - 1]
            /\ StartAttempt(r)
            /\ UNCHANGED response
       ELSE /\ pc' = [pc EXCEPT ![r] = "failed"]
            /\ response' = [response EXCEPT ![r] =
                  [sent |-> "error", status |-> 0,
                   body |-> Rejection(settled[r].completion.value)]]
            /\ UNCHANGED <<retries, attempts, genCalls, inflight>>
    /\ UNCHANGED <<bodyText, generatedSchema, lastResp, settled, failKinds>>

\* Response.json(validationResult, { status: 200 })
Respond(r) ==
    /\ pc[r] = "fulfilled"
    /\ pc' = [pc EXCEPT ![r] = "responded"]
    /\ response' = [response EXCEPT ![r] =
          [sent |-> "json", status |-> 200, body |-> settled[r].completion.value]]
    /\ UNCHANGED <<bodyText, generatedSchema, retries, attempts, genCalls,
                   inflight, lastResp, settled, failKinds>>

----------------------------------------------------------------------------
(* Translator runs.                                                        *)

TranslatorIdle ==
    /\ schema = Undefined
    /\ value = Undefined
    /\ kind = NotRun
    /\ zod = NotRun
    /\ parsed = NotRun

RetryIdle ==
    /\ rN = 0
    /\ rRetries = 0
    /\ rCalls = 0
    /\ rState = "idle"
    /\ rOutcomes = <<>>
    /\ rResult = NotRun

HandlerInit ==
    /\ pc = [r \in Requests |-> "idle"]
    /\ bodyText = [r \in Requests |-> ""]
    /\ generatedSchema = [r \in Requests |-> NotRun]
    /\ retries = [r \in Requests |-> 0]
    /\ attempts = [r \in Requests |-> 0]
    /\ genCalls = [r \in Requests |-> 0]
    /\ inflight = [r \in Requests |-> 0]
    /\ lastResp = [r \in Requests |-> NotRun]
    /\ settled = [r \in Requests |-> NotSettled]
    /\ failKinds = [r \in Requests |-> {}]
    /\ response = [r \in Requests |-> NoResponse]

InitSchema ==
    /\ schema \in LooseNodes(MaxDepth)
    /\ value = Undefined
    /\ kind = NotRun
    /\ zod = NotRun
    /\ parsed = NotRun
    /\ RetryIdle
    /\ HandlerInit

InitValidate ==
    /\ schema \in WellFormedNodes(MaxDepth)
    /\ value \in Values(MaxDepth)
    /\ kind = NotRun
    /\ zod = NotRun
    /\ parsed = NotRun
    /\ RetryIdle
    /\ HandlerInit

InitRetry ==
    /\ rN \in 0..MaxRetries
    /\ rRetries = rN
    /\ rCalls = 0
    /\ rState = "uncalled"
    /\ rOutcomes = <<>>
    /\ rResult = NotRun
    /\ TranslatorIdle
    /\ HandlerInit

Init ==
    /\ HandlerInit
    /\ TranslatorIdle
    /\ RetryIdle

Classify ==
    /\ kind = NotRun
    /\ kind' = determineSchemaType(schema)
    /\ UNCHANGED <<schema, value, zod, parsed, rvars, hvars>>

Translate ==
    /\ zod = NotRun
    /\ zod' = jsonSchemaToZod(schema)
    /\ UNCHANGED <<schema, value, kind, parsed, rvars, hvars>>

\* generatedSchema.parse(value) on the translated validator
Validate ==
    /\ zod # NotRun
    /\ ~zod.thrown
    /\ parsed = NotRun
    /\ parsed' = safeParse(zod.value, value)
    /\ UNCHANGED <<schema, value, kind, zod, rvars, hvars>>

NextSchema == Classify \/ Translate
NextValidate == Translate \/ Validate

NextRetry ==
    \/ RetryCall /\ UNCHANGED <<tvars, hvars>>
    \/ Settle /\ UNCHANGED <<tvars, hvars>>
    \/ RetryCatch /\ UNCHANGED <<tvars, hvars>>

\* one request, every body and every answer of the collaborator
Next ==
    \/ Receive(1, RequestTexts) /\ UNCHANGED <<tvars, rvars>>
    \/ Handle(1) /\ UNCHANGED <<tvars, rvars>>
    \/ CollaboratorResponds(1, Responses) /\ UNCHANGED <<tvars, rvars>>
    \/ Catch(1) /\ UNCHANGED <<tvars, rvars>>
    \/ Respond(1) /\ UNCHANGED <<tvars, rvars>>

\* several requests in progress at once
NextConc ==
    \E r \in Requests :
        \/ Receive(r, ConcRequestTexts) /\ UNCHANGED <<tvars, rvars>>
        \/ Handle(r) /\ UNCHANGED <<tvars, rvars>>
        \/ CollaboratorResponds(r, ConcResponses) /\ UNCHANGED <<tvars, rvars>>
        \/ Catch(r) /\ UNCHANGED <<tvars, rvars>>
        \/ Respond(r) /\ UNCHANGED <<tvars, rvars>>

SpecSchema == InitSchema /\ [][NextSchema]_vars
SpecValidate == InitValidate /\ [][NextValidate]_vars
SpecRetry == InitRetry /\ [][NextRetry]_vars
Spec == Init /\ [][Next]_vars
SpecConc == Init /\ [][NextConc]_vars

----------------------------------------------------------------------------
(* Claims about the translator.                                            *)

\* nodes of a tree in traversal order: a node, then the children its kind gives
\* it (the items of an array node, the field values of an object node)
RECURSIVE Traversal(_)
RECURSIVE TraverseFields(_, _)
TraverseFields(s, i) ==
    IF i > Len(s.v) THEN <<>>
    ELSE Traversal(s.v[i][2]) \o TraverseFields(s, i + 1)
Traversal(s) ==
    LET type == determineSchemaType(s)
    IN IF type.thrown THEN <<s>>
       ELSE CASE type.value = Str("array") -> <<s>> \o Traversal(GetProperty(s, "items"))
              [] type.value = Str("object") -> <<s>> \o TraverseFields(s, 1)
              [] OTHER -> <<s>>

SupportedKinds ==
    {Str("string"), Str("number"), Str("boolean"), Str("array"), Str("object")}
Unclassifiable(n) == determineSchemaType(n).thrown
Unsupported(n) == ~Unclassifiable(n) /\ determineSchemaType(n).value \notin SupportedKinds
FirstBad(nodes) ==
    CHOOSE i \in 1..Len(nodes) :
        /\ Unclassifiable(nodes[i]) \/ Unsupported(nodes[i])
        /\ \A j \in 1..(i - 1) : ~Unclassifiable(nodes[j]) /\ ~Unsupported(nodes[j])
HasUnsupported(s) == \E i \in 1..Len(Traversal(s)) : Unsupported(Traversal(s)[i])

\* what the spec says a well-formed tree's validator accepts
RECURSIVE Accepts(_, _)
Accepts(s, x) ==
    IF "type" \in Keys(s)
    THEN LET type == GetProperty(s, "type").v
         IN IF type = "array"
            THEN x = Null \/ (x.t = "array" /\
                     \A i \in 1..Len(x.v) : Accepts(GetProperty(s, "items"), x.v[i]))
            ELSE x = Null \/ x.t = type
    ELSE x.t = "object" /\
         \A i \in 1..Len(s.v) : s.v[i][1] \in Keys(x) /\
                                Accepts(s.v[i][2], GetProperty(x, s.v[i][1]))

\* C5: for a tree of primitive markers, array markers with items and nested
\* objects, jsonSchemaToZod returns a validator, and that validator accepts a
\* value exactly when: at a primitive leaf the value has that type or is null;
\* at an array node it is null or an array of accepted elements; at an object
\* node it is an object (not null) holding every declared key with an accepted
\* value.
C5_AcceptsExactly ==
    /\ zod # NotRun => ~zod.thrown
    /\ parsed # NotRun => (parsed.success <=> Accepts(schema, value))

C5_Witness ==
    /\ schema = Obj(<< <<"a", ArrayMarker(Marker("number"))>>, <<"b", Marker("number")>> >>)
    /\ value = Obj(<< <<"a", Arr(<<Null, Num(25)>>)>>, <<"b", Num(25)>> >>)
    /\ parsed # NotRun
    /\ parsed.success

\* C6 as stated: whenever the tree holds a node whose kind is none of string,
\* number, boolean, array, object, jsonSchemaToZod fails, and with an
\* "Unsupported schema type" error naming the type of such a node.
C6_Original ==
    (zod # NotRun /\ HasUnsupported(schema)) =>
        /\ zod.thrown
        /\ \E i \in 1..Len(Traversal(schema)) :
              /\ Unsupported(Traversal(schema)[i])
              /\ zod.value = ErrorObject("Error", "Unsupported schema type: " \o
                     TemplateString(GetProperty(Traversal(schema)[i], "type")))

\* C6 amended: a tree holding a node of unsupported kind is never translated;
\* the failure is the "Unsupported schema type" error naming that node's type
\* when it is the first node in traversal order that cannot be translated, and
\* a TypeError when a null node or an array node without items comes first.
C6_UnsupportedFails ==
    (zod # NotRun /\ HasUnsupported(schema)) =>
        LET nodes == Traversal(schema)
            bad == nodes[FirstBad(nodes)]
        IN /\ zod.thrown
           /\ Unsupported(bad) =>
                zod.value = ErrorObject("Error", "Unsupported schema type: " \o
                                TemplateString(GetProperty(bad, "type")))
           /\ Unclassifiable(bad) => zod.value = TypeError

C6_Witness ==
    /\ schema = Obj(<< <<"a", ArrayMarker(Marker("unknown"))>> >>)
    /\ zod = Throw(ErrorObject("Error", "Unsupported schema type: unknown"))

\* C10 as stated: a node without a type key is classified as an object, or as
\* an array when it is a sequence; a node with a type key by that key's value;
\* for mappings, sequences, strings, numbers and booleans alike.
C10_Original ==
    (kind # NotRun /\ schema.t \in {"object", "array", "string", "number", "boolean"}) =>
        IF schema.t = "object" /\ "type" \in Keys(schema)
        THEN kind = Return(GetProperty(schema, "type"))
        ELSE IF schema.t = "array" THEN kind = Return(Str("array"))
             ELSE kind = Return(Str("object"))

\* C10 amended: a mapping without a type key is classified as an object and a
\* sequence as an array; a mapping with a type key by that key's value; a
\* string, number or boolean node is classified by its own type name.
C10_Classification ==
    (kind # NotRun /\ schema.t \in {"object", "array", "string", "number", "boolean"}) =>
        CASE schema.t = "object" /\ "type" \in Keys(schema) ->
                kind = Return(GetProperty(schema, "type"))
          [] schema.t = "object" /\ "type" \notin Keys(schema) ->
                kind = Return(Str("object"))
          [] schema.t = "array" -> kind = Return(Str("array"))
          [] OTHER -> kind = Return(Str(schema.t))

C10_Witness ==
    /\ schema = Arr(<<Marker("string")>>)
    /\ kind = Return(Str("array"))

----------------------------------------------------------------------------
(* Claims about RetryablePromise.retry.                                    *)

AllFailed == \A i \in 1..Len(rOutcomes) : Fails(rOutcomes[i])

\* C1: the executor is never invoked more than N + 1 times, whatever it does;
\* when it fails at every invocation the call goes on until it has invoked it
\* exactly N + 1 times, and then the call fails.
C1_AlwaysFailing ==
    /\ rCalls = Len(rOutcomes)
    /\ rCalls <= rN + 1
    /\ rState = "failed" => (AllFailed /\ rCalls = rN + 1 /\ rResult.thrown)
    /\ (AllFailed /\ rState \notin {"failed", "idle"}) =>
          (rCalls < rN + 1 \/ rState \in {"pending", "rejected"}) /\ ENABLED NextRetry

C1_Witness == rState = "failed" /\ rN = 3 /\ rCalls = 4

\* C2: when the executor fails k-1 times and succeeds at its k-th invocation
\* (k <= N + 1), it is invoked exactly k times, the call resolves with the
\* value of the k-th invocation, and it is never invoked after a success.
C2_SucceedsAtKth ==
    /\ \A i \in 1..(Len(rOutcomes) - 1) : Fails(rOutcomes[i])
    /\ rState = "fulfilled" =>
          LET k == Len(rOutcomes)
          IN /\ rCalls = k
             /\ 1 <= k /\ k <= rN + 1
             /\ rOutcomes[k].does = "resolve"
             /\ rResult = Return(OpValue(k, rOutcomes[k].error.v[1]))
             /\ ~ENABLED NextRetry

C2_Witness ==
    /\ rState = "fulfilled"
    /\ rN = 3
    /\ rCalls = 3
    /\ rResult = Return(Str("SyntaxError 3"))

\* C3: when the budget is exhausted the call fails with exactly the failure
\* of the last invocation: not wrapped, not an earlier one, not a combination.
C3_LastFailureUnchanged ==
    rState = "failed" =>
        /\ rCalls = Len(rOutcomes)
        /\ rResult = Throw(ErrorObject(rOutcomes[rCalls].error.v[1],
                                       "attempt " \o ToString(rCalls)))

C3_Witness ==
    /\ rState = "failed"
    /\ rN = 3
    /\ rOutcomes[1].error.v[1] = "NetworkError"
    /\ rResult = Throw(ErrorObject("SyntaxError", "attempt 4"))

----------------------------------------------------------------------------
(* Claims about the handler.                                               *)

Body(r) == JSONparse(bodyText[r])
Format(r) == GetProperty(Body(r).value, "format")

\* the shape the handler requires: input a string, format a mapping
ShapeOk(body) ==
    /\ body.t = "object"
    /\ GetProperty(body, "input").t = "string"
    /\ GetProperty(body, "format").t = "object"

BadRequest(r) == ~Body(r).thrown /\ ~ShapeOk(Body(r).value)
Untranslatable(r) ==
    ~Body(r).thrown /\ ShapeOk(Body(r).value) /\ HasUnsupported(Format(r))

\* C4: a request whose body fails the shape check, or whose format holds an
\* unsupported type, never enters the retry loop: no attempt is made, the
\* collaborator is never invoked, and the request fails with that failure.
C4_NoRetryBeforeLoop ==
    \A r \in Requests :
        (pc[r] # "idle" /\ (BadRequest(r) \/ Untranslatable(r))) =>
            /\ attempts[r] = 0
            /\ genCalls[r] = 0
            /\ inflight[r] = 0
            /\ pc[r] \in {"reading", "failed"}
            /\ pc[r] = "failed" =>
                  /\ response[r].sent = "error"
                  /\ BadRequest(r) => response[r].body = ZodError
                  /\ Untranslatable(r) => response[r].body.v[1] = "Error"

C4_Witness ==
    /\ pc[1] = "failed"
    /\ bodyText[1] = "{\"input\":\"My name is John and I am 25 years old.\"}"
    /\ genCalls[1] = 0
    /\ response[1].body = ZodError

\* C7: a 200 response is sent only after an attempt whose text parsed as JSON
\* and whose value the format's validator accepted; its body is the validated
\* value of that attempt, the latest one; a failed request never sends 200.
C7_SuccessIsValidated ==
    \A r \in Requests :
        /\ response[r].status = 200 <=> pc[r] = "responded"
        /\ pc[r] = "responded" =>
              /\ ~lastResp[r].thrown
              /\ settled[r].attempt = attempts[r]
              /\ LET json == JSONparse(OrEmpty(lastResp[r].value))
                 IN /\ ~json.thrown
                    /\ Accepts(Format(r), json.value)
                    /\ Accepts(Format(r), response[r].body)
                    /\ response[r].body = safeParse(generatedSchema[r].value, json.value).data

C7_Witness ==
    /\ pc[1] = "responded"
    /\ attempts[1] = 3
    /\ failKinds[1] = {"parse", "validation"}
    /\ lastResp[1] = Return(Str("{\"name\":\"John\",\"age\":25,\"note\":\"none\"}"))
    /\ response[1].body = Obj(<< <<"name", Str("John")>>, <<"age", Num(25)>> >>)

\* C8: a generation failure, a parse failure and a validation failure each
\* fail the attempt and use up exactly one unit of the budget, in any mixture:
\* the k-th attempt runs with RETRIES - (k - 1) units left, and a request that
\* fails in the loop has made exactly RETRIES + 1 attempts and fails with the
\* last attempt's failure; with nothing but unparsable text that is the parse
\* failure, after 4 attempts.
C8_UniformRetry ==
    \A r \in Requests :
        /\ pc[r] \in {"pending", "rejected", "fulfilled", "responded"} =>
              /\ attempts[r] = (RETRIES - retries[r]) + 1
              /\ genCalls[r] = attempts[r]
        /\ pc[r] = "rejected" =>
              /\ settled[r].attempt = attempts[r]
              /\ FailureKind(settled[r].completion.value) \in failKinds[r]
        /\ (pc[r] = "failed" /\ generatedSchema[r] # NotRun) =>
              /\ attempts[r] = RETRIES + 1
              /\ genCalls[r] = RETRIES + 1
              /\ settled[r].attempt = RETRIES + 1
              /\ response[r].sent = "error"
              /\ response[r].body = settled[r].completion.value
              /\ failKinds[r] = {"parse"} =>
                    (attempts[r] = 4 /\ response[r].body = SyntaxError)

C8_Witness ==
    /\ pc[1] = "failed"
    /\ failKinds[1] = {"parse"}
    /\ attempts[1] = 4
    /\ response[1].body = SyntaxError

\* C9: within a request at most one attempt is in flight at any time, and an
\* attempt after the first is started only once the attempt before it has
\* settled with a failure; also with several requests in progress.
C9_Sequential ==
    /\ [](\A r \in Requests :
            inflight[r] <= 1 /\ (inflight[r] = 1 <=> pc[r] = "pending"))
    /\ [][\A r \in Requests :
            attempts'[r] # attempts[r] =>
                /\ attempts'[r] = attempts[r] + 1
                /\ inflight[r] = 0
                /\ attempts[r] >= 1 =>
                      /\ pc[r] = "rejected"
                      /\ settled[r].attempt = attempts[r]
                      /\ settled[r].completion.thrown]_vars

C9_Witness ==
    /\ pc[1] = "pending"
    /\ pc[2] = "pending"
    /\ attempts[1] = 2
    /\ attempts[2] = 3

====
